---------------------------- MODULE Spec2Model ----------------------------
(***************************************************************************)
(* LocalReply AI engine (src/server.js): the POST /chat booking dialogue,  *)
(* its text extractors, the intent classifier adapter, the notification    *)
(* dispatcher and the in-memory session store.                             *)
(*                                                                         *)
(* Text is modelled by TLA+ strings; a character is a string of length 1.  *)
(* JavaScript's null/undefined is the value NULL.                          *)
(***************************************************************************)
EXTENDS Integers, Sequences, FiniteSets, TLC

NULL == "<null>"

(***************************************************************************)
(* String primitives of the JavaScript runtime used by the source.        *)
(***************************************************************************)
CharAt(s, i) == SubSeq(s, i, i)

Digits == "0123456789"

UpperChars == "ABCDEFGHIJKLMNOPQRSTUVWXYZÉÈÊÀÂÔÛÙÎÇ"

LowerChars == "abcdefghijklmnopqrstuvwxyzéèêàâôûùîç"

DigitChars ==
  { "0", "1", "2", "3", "4", "5", "6", "7", "8", "9" }

LowerLetters ==
  { "a", "b", "c", "d", "e", "f", "g", "h", "i", "j", "k", "l", "m", "n",
    "o", "p", "q", "r", "s", "t", "u", "v", "w", "x", "y", "z" }

UpperLetters ==
  { "A", "B", "C", "D", "E", "F", "G", "H", "I", "J", "K", "L", "M", "N",
    "O", "P", "Q", "R", "S", "T", "U", "V", "W", "X", "Y", "Z" }

\* the accented capitals that occur
UpperAccents ==
  { "É", "È", "Ê", "À", "Â", "Ô", "Û", "Ù", "Î", "Ç" }

\* \w of a JavaScript regular expression without the u flag
WordChars == DigitChars \cup LowerLetters \cup UpperLetters \cup {"_"}

IsDigit(c) == c \in DigitChars

IsWordChar(c) == c \in WordChars

\* \s of a JavaScript regular expression (the characters that occur here)
IsSpace(c) == c \in {" ", "\t", "\n"}

LowerChar(c) ==
  IF c \in UpperLetters \/ c \in UpperAccents
    THEN CharAt(LowerChars, CHOOSE k \in 1..Len(UpperChars) : CharAt(UpperChars, k) = c)
    ELSE c

RECURSIVE toLowerCase(_)
toLowerCase(s) ==
  IF s = "" THEN "" ELSE LowerChar(CharAt(s, 1)) \o toLowerCase(SubSeq(s, 2, Len(s)))

RECURSIVE trimStart(_)
trimStart(s) ==
  IF s # "" /\ IsSpace(CharAt(s, 1)) THEN trimStart(SubSeq(s, 2, Len(s))) ELSE s

RECURSIVE trimEnd(_)
trimEnd(s) ==
  IF s # "" /\ IsSpace(CharAt(s, Len(s))) THEN trimEnd(SubSeq(s, 1, Len(s) - 1)) ELSE s

trim(s) == trimEnd(trimStart(s))

\* the element of a one-element set.  Only({ e(x) : x \in {v} }) is e(v) with
\* v computed once, however often e reads x
Only(S) == CHOOSE r \in S : TRUE

\* the least element of a set of positive numbers, or 0 when it is empty
Least(S) ==
  Only({ IF T = {} THEN 0 ELSE CHOOSE i \in T : \A j \in T : i <= j : T \in {S} })

\* String.prototype.includes
includes(t, w) == \E i \in 0..(Len(t) - Len(w)) : SubSeq(t, i + 1, i + Len(w)) = w

\* every character of s[from..to] is a digit, and the range lies inside s
AllDigits(s, from, to) ==
  /\ from >= 1
  /\ to <= Len(s)
  /\ \A k \in from..to : IsDigit(CharAt(s, k))

\* \b between position p-1 and p (1-based; p = Len(s)+1 is the end of the string)
WordBoundary(s, p) ==
  LET before == p > 1 /\ IsWordChar(CharAt(s, p - 1))
      after  == p <= Len(s) /\ IsWordChar(CharAt(s, p))
  IN  before # after

DigitValue(c) == (CHOOSE k \in 1..10 : CharAt(Digits, k) = c) - 1

\* parseInt(s, 10) of a string of digits
RECURSIVE parseInt(_)
parseInt(s) ==
  IF s = "" THEN 0
  ELSE 10 * parseInt(SubSeq(s, 1, Len(s) - 1)) + DigitValue(CharAt(s, Len(s)))

\* String(n) of a natural number
RECURSIVE NumToString(_)
NumToString(n) ==
  IF n < 10 THEN CharAt(Digits, n + 1)
  ELSE NumToString(n \div 10) \o CharAt(Digits, (n % 10) + 1)

\* String.prototype.padStart(2, "0")
padStart2(s) == IF Len(s) < 2 THEN "0" \o s ELSE s

(***************************************************************************)
(* UTILS (src/server.js, 153-230)                                          *)
(***************************************************************************)
\* String(s || "").toLowerCase()
safeLower(s) == IF s = NULL THEN "" ELSE toLowerCase(s)

yesWords ==
  << "oui", "ok", "okay", "confirmer", "confirmé", "confirme",
     "c'est bon", "cest bon", "d'accord", "valider", "go" >>

isConfirmation(text) ==
  LET t == trim(safeLower(text))
  IN  \E k \in 1..Len(yesWords) : t = yesWords[k] \/ includes(t, yesWords[k])

monthNames ==
  << "janvier", "février", "fevrier", "mars", "avril", "mai", "juin", "juillet",
     "août", "aout", "septembre", "octobre", "novembre", "décembre", "decembre" >>

months ==
  "janvier" :> 1 @@ "février" :> 2 @@ "fevrier" :> 2 @@ "mars" :> 3 @@ "avril" :> 4
  @@ "mai" :> 5 @@ "juin" :> 6 @@ "juillet" :> 7 @@ "août" :> 8 @@ "aout" :> 8
  @@ "septembre" :> 9 @@ "octobre" :> 10 @@ "novembre" :> 11 @@ "décembre" :> 12
  @@ "decembre" :> 12

\* text.match(/\b(\d{4})-(\d{2})-(\d{2})\b/): the start of the leftmost match, or 0
isoMatchAt(text, i) ==
  /\ i + 9 <= Len(text)
  /\ WordBoundary(text, i)
  /\ AllDigits(text, i, i + 3)
  /\ CharAt(text, i + 4) = "-"
  /\ AllDigits(text, i + 5, i + 6)
  /\ CharAt(text, i + 7) = "-"
  /\ AllDigits(text, i + 8, i + 9)
  /\ WordBoundary(text, i + 10)

isoMatch(text) == Least({ i \in 1..Len(text) : isoMatchAt(text, i) })

\* the end of the run of \s characters that starts at position p (p - 1 if none)
RECURSIVE spaceRunEnd(_, _)
spaceRunEnd(m, p) ==
  IF p <= Len(m) /\ IsSpace(CharAt(m, p)) THEN spaceRunEnd(m, p + 1) ELSE p - 1

\* the first alternative of the month alternation that matches at position p, or 0
monthAt(m, p) ==
  Least({ k \in 1..Len(monthNames) :
            /\ p + Len(monthNames[k]) - 1 <= Len(m)
            /\ SubSeq(m, p, p + Len(monthNames[k]) - 1) = monthNames[k] })

\* (\d{1,2})\s+(janvier|...) tried at start i with nd digits: the month index, or 0
dayMonthAt(m, i, nd) ==
  IF AllDigits(m, i, i + nd - 1)
    THEN Only({ IF e >= i + nd THEN monthAt(m, e + 1) ELSE 0 :
                  e \in {spaceRunEnd(m, i + nd)} })
    ELSE 0

\* the leftmost match, the greedy (two-digit) day first: <<start, digits, month index>>
dayMonthMatch(m) ==
  Only({ IF i0 = 0 THEN << >>
         ELSE IF dayMonthAt(m, i0, 2) # 0 THEN << i0, 2, dayMonthAt(m, i0, 2) >>
         ELSE << i0, 1, dayMonthAt(m, i0, 1) >> :
           i0 \in { Least({ i \in 1..Len(m) :
                              dayMonthAt(m, i, 2) # 0 \/ dayMonthAt(m, i, 1) # 0 }) } })

IsLeap(y) == (y % 4 = 0 /\ y % 100 # 0) \/ y % 400 = 0

DaysIn(y, mo) ==
  IF mo = 2 THEN (IF IsLeap(y) THEN 29 ELSE 28)
  ELSE IF mo \in {4, 6, 9, 11} THEN 30 ELSE 31

RECURSIVE DaysBefore(_, _)
DaysBefore(y, mo) == IF mo <= 1 THEN 0 ELSE DaysBefore(y, mo - 1) + DaysIn(y, mo - 1)

\* new Date(year, month - 1, day) < now, for a clock reading
\* now = [year, month, day, ms] (ms: milliseconds since local midnight).
\* Both instants are counted in days from 1 January of now.year; the Date
\* constructor carries a day beyond the month's end over into the next month.
candidateBeforeNow(month, day, now) ==
  LET cand  == DaysBefore(now.year, month) + day
      today == DaysBefore(now.year, now.month) + now.day
  IN  cand < today \/ (cand = today /\ 0 < now.ms)

parseDateFromText(text, now) ==
  IF text = NULL \/ text = "" THEN NULL
  ELSE Only({
    IF iso # 0
      THEN SubSeq(text, iso, iso + 3) \o "-" \o SubSeq(text, iso + 5, iso + 6) \o "-"
             \o SubSeq(text, iso + 8, iso + 9)
    ELSE Only({
      Only({
        IF match = << >> THEN NULL
        ELSE LET day   == parseInt(SubSeq(m, match[1], match[1] + match[2] - 1))
                 month == months[monthNames[match[3]]]
                 year  == IF candidateBeforeNow(month, day, now)
                            THEN now.year + 1 ELSE now.year
             IN  NumToString(year) \o "-" \o padStart2(NumToString(month))
                   \o "-" \o padStart2(NumToString(day)) :
        match \in {dayMonthMatch(m)} }) :
      m \in {toLowerCase(text)} }) :
    iso \in {isoMatch(text)} })

\* /\b(\d{1,2})h(\d{2})?\b/i tried at start i with nd hour digits and with or
\* without the minutes group
hMatchAt(text, i, nd, withMin) ==
  /\ WordBoundary(text, i)
  /\ AllDigits(text, i, i + nd - 1)
  /\ i + nd <= Len(text)
  /\ CharAt(text, i + nd) \in {"h", "H"}
  /\ IF withMin
       THEN AllDigits(text, i + nd + 1, i + nd + 2) /\ WordBoundary(text, i + nd + 3)
       ELSE WordBoundary(text, i + nd + 1)

\* the backtracking order of the engine: longest hour first, minutes group first
hTries == << <<2, TRUE>>, <<2, FALSE>>, <<1, TRUE>>, <<1, FALSE>> >>

hMatch(text) ==
  LET ok(i, k) == hMatchAt(text, i, hTries[k][1], hTries[k][2])
  IN  Only({ IF i0 = 0 THEN << >>
             ELSE Only({ << i0, hTries[k0][1], hTries[k0][2] >> :
                           k0 \in { Least({ k \in 1..4 : ok(i0, k) }) } }) :
               i0 \in { Least({ i \in 1..Len(text) : \E k \in 1..4 : ok(i, k) }) } })

\* /\b(\d{1,2}):(\d{2})\b/ tried at start i with nd hour digits
cMatchAt(text, i, nd) ==
  /\ WordBoundary(text, i)
  /\ AllDigits(text, i, i + nd - 1)
  /\ i + nd <= Len(text)
  /\ CharAt(text, i + nd) = ":"
  /\ AllDigits(text, i + nd + 1, i + nd + 2)
  /\ WordBoundary(text, i + nd + 3)

cMatch(text) ==
  Only({ IF i0 = 0 THEN << >> ELSE << i0, IF cMatchAt(text, i0, 2) THEN 2 ELSE 1 >> :
           i0 \in { Least({ i \in 1..Len(text) :
                              cMatchAt(text, i, 2) \/ cMatchAt(text, i, 1) }) } })

parseTimeFromText(text) ==
  IF text = NULL \/ text = "" THEN NULL
  ELSE Only({
    IF h # << >>
      THEN padStart2(SubSeq(text, h[1], h[1] + h[2] - 1)) \o ":"
             \o (IF h[3] THEN SubSeq(text, h[1] + h[2] + 1, h[1] + h[2] + 2)
                        ELSE "00")
    ELSE Only({
      IF c # << >>
        THEN padStart2(SubSeq(text, c[1], c[1] + c[2] - 1)) \o ":"
               \o SubSeq(text, c[1] + c[2] + 1, c[1] + c[2] + 2)
      ELSE NULL :
      c \in {cMatch(text)} }) :
    h \in {hMatch(text)} })

(***************************************************************************)
(* Values.  NULL is null/undefined where a string is expected, Nil where   *)
(* an object is expected; a string is truthy when it is neither NULL nor   *)
(* empty.                                                                  *)
(***************************************************************************)
Nil == [nil |-> TRUE]

Truthy(s) == s # NULL /\ s # ""

\* number of POST /chat requests that may be suspended at an await together
MaxInFlight == 2

Reqs == 1..MaxInFlight

\* number of days the clock may advance during a run
MaxTicks == 2

\* the keys of SESSIONS that occur: one caller-chosen id and the default
Sids == {"s1", "anon"}

ObjIds == 1..(Cardinality(Sids) + MaxInFlight)

\* rows of the businesses table at start-up
RomaRow ==
  [name |-> "Atelier Roma", description |-> "Barbier", address |-> "Via Roma 1, Lugano",
   map_url |-> "", business_type |-> "salon",
   contact_email |-> "roma@example.ch", timezone |-> "Europe/Zurich",
   services |-> << [name |-> "Coupe homme"], [name |-> "Barbe"] >>]

ZenRow ==
  [name |-> "Studio Zen", description |-> "", address |-> "",
   map_url |-> "", business_type |-> "local_business",
   contact_email |-> "", timezone |-> "Europe/Zurich",
   services |-> << [name |-> "Coupe homme"] >>]

Slugs == {"roma", "zen", "nope"}

InitialBusinesses ==
  [slug \in Slugs |->
     IF slug = "roma" THEN RomaRow ELSE IF slug = "zen" THEN ZenRow ELSE Nil]

\* a caller-supplied kb payload
KbSalon ==
  [business |-> [name |-> "Salon KB", business_type |-> NULL, timezone |-> NULL,
                 contact_email |-> "kb@example.ch"],
   services |-> << [name |-> "Barbe"] >>]

\* a caller-supplied kb payload without a contact address
KbPlain ==
  [business |-> [name |-> "Salon KB", business_type |-> NULL, timezone |-> NULL,
                 contact_email |-> NULL],
   services |-> << [name |-> "Barbe"] >>]

StartClock == [year |-> 2026, month |-> 3, day |-> 19, ms |-> 43200000]

DayNumber(t) == DaysBefore(t.year, t.month) + t.day

NextDay(t) ==
  IF t.day < DaysIn(t.year, t.month) THEN [t EXCEPT !.day = t.day + 1]
  ELSE IF t.month < 12 THEN [t EXCEPT !.month = t.month + 1, !.day = 1]
  ELSE [t EXCEPT !.year = t.year + 1, !.month = 1, !.day = 1]

\* the record SESSIONS[sid] is initialised with (src/server.js, 347-352)
BlankState == [service |-> NULL, date |-> NULL, time |-> NULL, in_booking |-> FALSE]

NoRes == [status |-> 0, session_id |-> NULL, text |-> NULL, error |-> NULL, details |-> NULL]

\* res.json({session_id, reply: {text}})
ReplyRes(sid, text) == [NoRes EXCEPT !.status = 200, !.session_id = sid, !.text = text]

\* res.status(code).json({error, details})
ErrorRes(code, error, details) ==
  [NoRes EXCEPT !.status = code, !.error = error, !.details = details]

IdleReq ==
  [pc |-> "idle", business_slug |-> NULL, session_id |-> NULL, message |-> NULL,
   kb |-> Nil, sid |-> NULL, state |-> 0, dbBusiness |-> Nil, llm |-> Nil,
   intentRes |-> Nil, sent |-> Nil, res |-> NoRes]

VARIABLES
  SESSIONS,     \* the session store: sid -> object id, 0 when the key is absent
  heap,         \* object id -> the session record {service, date, time, in_booking}
  req,          \* the POST /chat requests in flight: their locals and position
  businesses,   \* the businesses table
  env,          \* process.env
  now,          \* the clock read by new Date()
  hp,           \* observer: how far the dialogue of request slot 1 is along HappyPath
  retry,        \* observer: a dispatch failure and the confirmation retried after it
  seenEmpty,    \* observer: the slots each request in flight found empty at line 353
  adminReq,     \* the last request to POST /business/upsert or GET /business/:slug
  adminRes,     \* the response it got
  recap,        \* observer: sid -> the booking last recapped to the session, or Nil
  boot          \* the evaluation of the server module and what it has set up

vars ==
  << SESSIONS, heap, req, businesses, env, now, hp, retry, seenEmpty,
     adminReq, adminRes, recap, boot >>

(***************************************************************************)
(* OPENAI (intent only) (src/server.js, 87-109)                            *)
(***************************************************************************)
\* what client.responses.create can settle with
LlmReject == [ok |-> FALSE, output_text |-> NULL]

LlmText(t) == [ok |-> TRUE, output_text |-> t]

LlmOutcomes ==
  { LlmReject,
    LlmText("{\"intent\":\"booking\"}"),
    LlmText("{\"intent\":\"other\"}"),
    LlmText(""),
    LlmText("null"),
    LlmText("Bien sûr ! intent = booking") }

JsObject(intent) == [kind |-> "object", intent |-> intent]

JsNull == [kind |-> "null", intent |-> NULL]

SyntaxError == [kind |-> "SyntaxError", intent |-> NULL]

\* JSON.parse on the texts that occur: a value, or SyntaxError when it throws
JSONparse(text) ==
  IF text = "{\"intent\":\"booking\"}" THEN JsObject("booking")
  ELSE IF text = "{\"intent\":\"other\"}" THEN JsObject("other")
  ELSE IF text = "{}" THEN JsObject(NULL)
  ELSE IF text = "null" THEN JsNull
  ELSE SyntaxError

\* the value analyzeIntent resolves with, given how the model call settled
analyzeIntent(outcome) ==
  IF ~outcome.ok THEN JsObject("other")
  ELSE LET parsed == JSONparse(IF Truthy(outcome.output_text)
                                 THEN outcome.output_text ELSE "{}")
       IN  IF parsed = SyntaxError THEN JsObject("other") ELSE parsed

\* the request bodies of the sequential runs
Messages ==
  { NULL, "je veux réserver", "Coupe homme", "le 20 mars", "14h", "oui",
    "plutôt la Barbe", "ok pour 15h30" }

\* the request bodies of the overlapping runs
RaceMessages == { "Coupe homme le 20 mars à 14h", "Barbe", "oui" }

\* the days and month names of the date messages
DateDays == { 1, 19, 20, 28 }

DateMonths == { "février", "mars", "decembre" }

DayMonthText(day, monthName) == "le " \o NumToString(day) \o " " \o monthName

\* the request bodies of the runs on dates
DateMessages == { DayMonthText(day, monthName) : day \in DateDays, monthName \in DateMonths }

Texts == (Messages \cup RaceMessages \cup DateMessages) \ {NULL}

\* the service lists a request can see
Catalogs == { RomaRow.services, ZenRow.services, KbSalon.services, << >> }

\* the clock readings of a run
RECURSIVE ClockAt(_)
ClockAt(k) == IF k = 0 THEN StartClock ELSE NextDay(ClockAt(k - 1))

\* times of day in ms since local midnight: midnight, noon, the last ms
TimesOfDay == { 0, 43200000, 86399999 }

\* the clock readings of the runs on dates
DateClocks ==
  { [year |-> 2026, month |-> md[1], day |-> md[2], ms |-> ms] :
      md \in { << 1, 1 >>, << 3, 19 >>, << 3, 20 >>, << 12, 31 >> }, ms \in TimesOfDay }

Clocks == { ClockAt(k) : k \in 0..MaxTicks } \cup DateClocks

(***************************************************************************)
(* The extractors on the request bodies that occur, evaluated once.        *)
(***************************************************************************)
confirmationOf == [text \in Texts |-> isConfirmation(text)]

dateOf == [text \in Texts, clock \in Clocks |-> parseDateFromText(text, clock)]

timeOf == [text \in Texts |-> parseTimeFromText(text)]

(***************************************************************************)
(* CHAT ENDPOINT (src/server.js, 338-479): the pure parts                  *)
(***************************************************************************)
effectiveKB(kb, dbBusiness) ==
  IF kb # Nil THEN kb
  ELSE IF dbBusiness # Nil
    THEN [business |->
            [name |-> dbBusiness.name,
             business_type |-> IF Truthy(dbBusiness.business_type)
                                 THEN dbBusiness.business_type ELSE "local_business",
             timezone |-> IF Truthy(dbBusiness.timezone)
                            THEN dbBusiness.timezone ELSE "Europe/Zurich",
             contact_email |-> NULL],
          services |-> dbBusiness.services]
  ELSE Nil

businessName(kb, dbBusiness) ==
  LET e == effectiveKB(kb, dbBusiness)
  IN  IF e # Nil /\ Truthy(e.business.name) THEN e.business.name ELSE "ce business"

services(kb, dbBusiness) ==
  LET e == effectiveKB(kb, dbBusiness)
  IN  IF e # Nil THEN e.services ELSE << >>

businessEmail(kb, dbBusiness) ==
  LET e == effectiveKB(kb, dbBusiness)
  IN  IF e # Nil /\ Truthy(e.business.contact_email) THEN e.business.contact_email
      ELSE IF dbBusiness # Nil /\ Truthy(dbBusiness.contact_email)
        THEN dbBusiness.contact_email
      ELSE NULL

\* a variant that takes in_booking from the classifier alone
enterBookingFollowingIntent(state, intentRes) ==
  [state EXCEPT !.in_booking = (intentRes.intent = "booking")]

\* if (intentRes.intent === "booking" || state.in_booking) state.in_booking = true
enterBooking(state, intentRes) ==
  IF intentRes.intent = "booking" \/ state.in_booking
    THEN [state EXCEPT !.in_booking = TRUE]
    ELSE state

\* services.find((s) => safeLower(message).includes(safeLower(s.name))): index or 0
findService(svcs, message) ==
  LET text == safeLower(message)
      hits == { k \in 1..Len(svcs) : includes(text, safeLower(svcs[k].name)) }
  IN  IF hits = {} THEN 0 ELSE CHOOSE k \in hits : \A j \in hits : k <= j

serviceOf == [svcs \in Catalogs, text \in Texts |-> findService(svcs, text)]

\* a variant that stores every extraction result, found or not
fillSlotsOverwriting(state, message, svcs, clock) ==
  [state EXCEPT !.service = IF serviceOf[svcs, message] # 0
                              THEN svcs[serviceOf[svcs, message]].name ELSE NULL,
                !.date = dateOf[message, clock],
                !.time = timeOf[message]]

\* what lines 403, 407 and 411 extract from a message, slot by slot
extraction(message, svcs, clock) ==
  [service |-> IF serviceOf[svcs, message] # 0
                 THEN svcs[serviceOf[svcs, message]].name ELSE NULL,
   date    |-> dateOf[message, clock],
   time    |-> timeOf[message]]

\* a variant that stores whatever the message carries, over a value already there
fillSlotsLastWins(state, message, svcs, clock) ==
  [state EXCEPT
     !.service = IF Truthy(extraction(message, svcs, clock).service)
                   THEN extraction(message, svcs, clock).service ELSE @,
     !.date    = IF Truthy(extraction(message, svcs, clock).date)
                   THEN extraction(message, svcs, clock).date ELSE @,
     !.time    = IF Truthy(extraction(message, svcs, clock).time)
                   THEN extraction(message, svcs, clock).time ELSE @]

\* Fill fields (code > IA)
fillSlots(state, message, svcs, clock) ==
  LET svc == serviceOf[svcs, message]
      s1  == IF ~Truthy(state.service) /\ svc # 0
               THEN [state EXCEPT !.service = svcs[svc].name] ELSE state
      d   == dateOf[message, clock]
      s2  == IF ~Truthy(s1.date) /\ Truthy(d) THEN [s1 EXCEPT !.date = d] ELSE s1
      t   == timeOf[message]
  IN  IF ~Truthy(s2.time) /\ Truthy(t) THEN [s2 EXCEPT !.time = t] ELSE s2

\* a variant that asks for the time before the date
nextStepTimeFirst(state, message, email) ==
  IF Truthy(state.service) /\ Truthy(state.date) /\ Truthy(state.time)
    THEN IF confirmationOf[message]
           THEN (IF ~Truthy(email) THEN "degraded" ELSE "dispatch")
           ELSE "recap"
  ELSE IF ~Truthy(state.service) THEN "askService"
  ELSE IF ~Truthy(state.time) THEN "askTime"
  ELSE "askDate"

\* the branch the handler takes once the fields are filled
nextStep(state, message, email) ==
  IF Truthy(state.service) /\ Truthy(state.date) /\ Truthy(state.time)
    THEN IF confirmationOf[message]
           THEN (IF ~Truthy(email) THEN "degraded" ELSE "dispatch")
           ELSE "recap"
  ELSE IF ~Truthy(state.service) THEN "askService"
  ELSE IF ~Truthy(state.date) THEN "askDate"
  ELSE "askTime"

RECURSIVE joinNames(_)
joinNames(svcs) ==
  IF Len(svcs) = 0 THEN ""
  ELSE IF Len(svcs) = 1 THEN svcs[1].name
  ELSE svcs[1].name \o " | " \o joinNames(Tail(svcs))

\* the reply texts (the emoji of the source texts are left out)
GreetingText(name) == "Bienvenue chez " \o name \o ". Comment puis-je vous aider ?"

DegradedText ==
  "Merci Votre demande est prête, mais le business n'a pas encore configuré son email de réception. "
    \o "Merci de le contacter directement pour finaliser."

ThanksText ==
  "Merci Votre demande a bien été transmise. L'équipe vous recontactera rapidement."

RecapText(state) ==
  "Parfait Je récapitule : " \o state.service \o " le " \o state.date \o " à "
    \o state.time \o ". Souhaitez-vous confirmer ?"

AskServiceText(svcs) ==
  IF Len(svcs) # 0
    THEN "Quel service souhaitez-vous réserver ? (" \o joinNames(svcs) \o ")"
    ELSE "Quel service souhaitez-vous réserver ?"

AskDateText == "Pour quelle date souhaitez-vous le rendez-vous ? (ex: 13 février)"

AskTimeText == "À quelle heure souhaitez-vous le rendez-vous ? (ex: 14h ou 14:30)"

ServerError(details) == ErrorRes(500, "Erreur serveur", details)

\* delete SESSIONS[sid] on the branch without a contact address (419-421)
storeAfterReply(S, sid, step) == IF step = "degraded" THEN [S EXCEPT ![sid] = 0] ELSE S

\* a variant that deletes the record whether or not the dispatch succeeded
storeAfterEmailAlways(S, sid, sentOk) == [S EXCEPT ![sid] = 0]

\* delete SESSIONS[sid] once sendBookingEmail has returned (431-441)
storeAfterEmail(S, sid, sentOk) == IF sentOk THEN [S EXCEPT ![sid] = 0] ELSE S

ReplyText(step, state, svcs) ==
  IF step = "degraded" THEN DegradedText
  ELSE IF step = "recap" THEN RecapText(state)
  ELSE IF step = "askService" THEN AskServiceText(svcs)
  ELSE IF step = "askDate" THEN AskDateText
  ELSE AskTimeText

(***************************************************************************)
(* The session records are JavaScript objects: a request keeps the         *)
(* reference it read at line 353 across its awaits.  Objects no key of     *)
(* SESSIONS and no suspended request refers to are collected.              *)
(***************************************************************************)
Live(S, q) == ({ S[s] : s \in Sids } \cup { q[r].state : r \in Reqs }) \ {0}

\* the heap as an explicit tuple over 1..n
RECURSIVE CollectUpTo(_, _, _)
CollectUpTo(h, live, n) ==
  IF n = 0 THEN << >>
  ELSE Append(CollectUpTo(h, live, n - 1), IF n \in live THEN h[n] ELSE BlankState)

Collect(h, S, q) == CollectUpTo(h, Live(S, q), Cardinality(ObjIds))

NewObj(S, q) ==
  CHOOSE o \in ObjIds \ Live(S, q) : \A p \in ObjIds \ Live(S, q) : o <= p

\* the handler has sent its response; its locals are dead
Finish(q, res) ==
  [IdleReq EXCEPT !.pc = "done", !.sid = q.sid, !.llm = q.llm, !.intentRes = q.intentRes,
                  !.sent = q.sent, !.res = res]

Respond(r, q, res, S, h) ==
  /\ req' = [req EXCEPT ![r] = Finish(q, res)]
  /\ SESSIONS' = S
  /\ heap' = Collect(h, S, req')

(***************************************************************************)
(* POST /chat, lines 338-361: validation, session lookup, the store query  *)
(***************************************************************************)
\* a variant that looks the session up (and creates its record) before it
\* validates the body
ChatReceiveSessionFirst(r, session_id, business_slug, message, kb) ==
  /\ req[r].pc \in {"idle", "done"}
  /\ LET q0  == [IdleReq EXCEPT !.business_slug = business_slug,
                                !.session_id = session_id,
                                !.message = message, !.kb = kb]
         sid == IF Truthy(session_id) THEN session_id ELSE "anon"
         o   == IF SESSIONS[sid] # 0 THEN SESSIONS[sid]
                ELSE NewObj(SESSIONS, [req EXCEPT ![r] = q0])
         S   == [SESSIONS EXCEPT ![sid] = o]
     IN  IF ~Truthy(business_slug) \/ ~Truthy(message)
           THEN Respond(r, q0, ErrorRes(400, "business_slug et message requis.", NULL),
                        S, heap)
           ELSE /\ req' = [req EXCEPT ![r] = [q0 EXCEPT !.pc = "db", !.sid = sid,
                                                        !.state = o]]
                /\ SESSIONS' = S
                /\ heap' = Collect(heap, SESSIONS', req')
  /\ UNCHANGED << businesses, env, now >>

ChatReceive(r, session_id, business_slug, message, kb) ==
  /\ req[r].pc \in {"idle", "done"}
  /\ LET q0 == [IdleReq EXCEPT !.business_slug = business_slug,
                               !.session_id = session_id,
                               !.message = message, !.kb = kb]
     IN  IF ~Truthy(business_slug) \/ ~Truthy(message)
           THEN Respond(r, q0, ErrorRes(400, "business_slug et message requis.", NULL),
                        SESSIONS, heap)
           ELSE LET sid == IF Truthy(session_id) THEN session_id ELSE "anon"
                    o   == IF SESSIONS[sid] # 0 THEN SESSIONS[sid]
                           ELSE NewObj(SESSIONS, [req EXCEPT ![r] = q0])
                IN  /\ req' = [req EXCEPT ![r] = [q0 EXCEPT !.pc = "db", !.sid = sid,
                                                             !.state = o]]
                    /\ SESSIONS' = [SESSIONS EXCEPT ![sid] = o]
                    /\ heap' = Collect(heap, SESSIONS', req')
  /\ UNCHANGED << businesses, env, now >>

(***************************************************************************)
(* POST /chat, lines 356-389: pool.query settles; analyzeIntent is called  *)
(***************************************************************************)
DbReturns(r, queryOk) ==
  /\ req[r].pc = "db"
  /\ IF queryOk
       THEN /\ req' = [req EXCEPT ![r].pc = "intent",
                                  ![r].dbBusiness = businesses[req[r].business_slug]]
            /\ UNCHANGED << SESSIONS, heap >>
       ELSE Respond(r, req[r], ServerError("Error: connect ECONNREFUSED"), SESSIONS, heap)
  /\ UNCHANGED << businesses, env, now >>

(***************************************************************************)
(* POST /chat, lines 389-474: the model call settles, analyzeIntent        *)
(* returns, and the handler runs to its reply or to the fetch of           *)
(* sendBookingEmail (115-142).                                             *)
(***************************************************************************)
LlmReturns(r, outcome) ==
  /\ req[r].pc = "intent"
  /\ LET q         == [req[r] EXCEPT !.llm = outcome, !.intentRes = analyzeIntent(outcome)]
         intentRes == q.intentRes
         name      == businessName(q.kb, q.dbBusiness)
         svcs      == services(q.kb, q.dbBusiness)
         email     == businessEmail(q.kb, q.dbBusiness)
         st1       == enterBooking(heap[q.state], intentRes)
         st2       == fillSlots(st1, q.message, svcs, now)
         step      == nextStep(st2, q.message, email)
     IN  IF intentRes = JsNull
           THEN \* intentRes.intent raises; the catch at 475 answers
                Respond(r, q, ServerError("TypeError: Cannot read properties of null (reading 'intent')"),
                        SESSIONS, heap)
         ELSE IF ~st1.in_booking
           THEN Respond(r, q, ReplyRes(q.sid, GreetingText(name)),
                        SESSIONS, [heap EXCEPT ![q.state] = st1])
         ELSE IF step # "dispatch"
           THEN Respond(r, q, ReplyRes(q.sid, ReplyText(step, st2, svcs)),
                        storeAfterReply(SESSIONS, q.sid, step),
                        [heap EXCEPT ![q.state] = st2])
         ELSE IF ~Truthy(env.RESEND_API_KEY)
           THEN Respond(r, q, ServerError("Error: Missing RESEND_API_KEY on server"),
                        SESSIONS, [heap EXCEPT ![q.state] = st2])
         ELSE /\ req' = [req EXCEPT ![r] =
                           [q EXCEPT !.pc = "email",
                                     !.sent = [to |-> email, businessName |-> name,
                                               booking |-> [service |-> st2.service,
                                                            date |-> st2.date,
                                                            time |-> st2.time]]]]
              /\ heap' = [heap EXCEPT ![q.state] = st2]
              /\ UNCHANGED SESSIONS
  /\ UNCHANGED << businesses, env, now >>

(***************************************************************************)
(* sendBookingEmail, lines 135-147, and POST /chat, lines 441-446 or 475.  *)
(* A non-2xx answer is read with r.text() and thrown in the same step: the *)
(* request touches no shared state in between.                             *)
(***************************************************************************)
MailOk == [settled |-> "ok", body |-> "{\"id\":\"1\"}"]

MailRejected == [settled |-> "status", body |-> "{\"message\":\"quota\"}"]

MailNetwork == [settled |-> "reject", body |-> NULL]

MailOutcomes == { MailOk, MailRejected, MailNetwork }

EmailReturns(r, outcome) ==
  /\ req[r].pc = "email"
  /\ LET q == req[r]
     IN  IF outcome.settled = "ok"
           THEN Respond(r, q, ReplyRes(q.sid, ThanksText),
                        storeAfterEmail(SESSIONS, q.sid, TRUE), heap)
         ELSE IF outcome.settled = "status"
           THEN Respond(r, q, ServerError("Error: Resend error: " \o outcome.body),
                        storeAfterEmail(SESSIONS, q.sid, FALSE), heap)
         ELSE Respond(r, q, ServerError("TypeError: fetch failed"),
                      storeAfterEmail(SESSIONS, q.sid, FALSE), heap)
  /\ UNCHANGED << businesses, env, now >>

(***************************************************************************)
(* The clock: a day passes.                                                *)
(***************************************************************************)
Tick ==
  /\ now.year = StartClock.year
  /\ DayNumber(now) - DayNumber(StartClock) < MaxTicks
  /\ now' = NextDay(now)
  /\ UNCHANGED << SESSIONS, heap, req, businesses, env >>

(***************************************************************************)
(* ADMIN AUTH and BUSINESS endpoints (src/server.js, 65-74 and 240-333).   *)
(* Each handler has one await, on pool.query, and touches no state of the  *)
(* process: it is one step, the outcome of the query an input.             *)
(***************************************************************************)
\* a value of process.env.ADMIN_TOKEN
AdminSecret == "t0k-admin"

\* the x-admin-token headers that occur (NULL: no header)
Tokens == { NULL, AdminSecret, "guess" }

NoAdminReq == [endpoint |-> NULL, token |-> NULL, slug |-> NULL, body |-> Nil]

NoAdminRes == [status |-> 0, error |-> NULL, details |-> NULL, body |-> Nil]

AdminError(code, error, details) ==
  [NoAdminRes EXCEPT !.status = code, !.error = error, !.details = details]

AdminOk(body) == [NoAdminRes EXCEPT !.status = 200, !.body = body]

\* a variant that lets a request without the header through
requireAdminHeaderOptional(token, e) ==
  IF ~Truthy(e.ADMIN_TOKEN) THEN AdminError(500, "Missing ADMIN_TOKEN on server", NULL)
  ELSE IF token # NULL /\ token # e.ADMIN_TOKEN THEN AdminError(401, "Unauthorized", NULL)
  ELSE NoAdminRes

\* requireAdmin: the response it sends, or NoAdminRes when it calls next()
requireAdmin(token, e) ==
  IF ~Truthy(e.ADMIN_TOKEN) THEN AdminError(500, "Missing ADMIN_TOKEN on server", NULL)
  ELSE IF token # e.ADMIN_TOKEN THEN AdminError(401, "Unauthorized", NULL)
  ELSE NoAdminRes

\* the bodies of POST /business/upsert that occur (NULL: the field is absent)
UpsertBodies ==
  { [slug |-> slug, name |-> name, address |-> NULL, contact_email |-> NULL,
     services |-> NULL] : slug \in {"zen", "nope", NULL}, name \in {"Neo", NULL} }
  \cup
  { [slug |-> slug, name |-> "Neo", address |-> "Rue du Lac 1",
     contact_email |-> "neo@example.ch", services |-> << [name |-> "Barbe"] >>] :
       slug \in {"zen", "nope"} }

\* the row the INSERT ... ON CONFLICT DO UPDATE leaves for a body, the
\* destructuring defaults of lines 242-254 applied
upsertRow(body) ==
  [name |-> body.name,
   description |-> "",
   address |-> IF body.address = NULL THEN "" ELSE body.address,
   map_url |-> "",
   business_type |-> "local_business",
   contact_email |-> IF body.contact_email = NULL THEN "" ELSE body.contact_email,
   timezone |-> "Europe/Zurich",
   services |-> IF body.services = NULL THEN << >> ELSE body.services]

\* encodeURIComponent on the characters that occur in addresses
RECURSIVE encodeURIComponent(_)
encodeURIComponent(t) ==
  IF t = "" THEN ""
  ELSE (IF CharAt(t, 1) = " " THEN "%20"
        ELSE IF CharAt(t, 1) = "," THEN "%2C"
        ELSE CharAt(t, 1)) \o encodeURIComponent(SubSeq(t, 2, Len(t)))

\* the body GET /business/:slug answers with for a row
publicBusiness(slug, row) ==
  [slug |-> slug,
   name |-> row.name,
   description |-> row.description,
   address |-> row.address,
   map_url |-> IF Truthy(row.map_url) THEN row.map_url
               ELSE IF Truthy(row.address)
                 THEN "https://www.google.com/maps/search/?api=1&query="
                        \o encodeURIComponent(row.address)
               ELSE "",
   business_type |-> IF Truthy(row.business_type)
                       THEN row.business_type ELSE "local_business"]

\* POST /business/upsert behind requireAdmin (65-74, 240-299)
Upsert(token, body, queryOk) ==
  /\ adminReq' = [endpoint |-> "upsert", token |-> token, slug |-> NULL, body |-> body]
  /\ IF requireAdmin(token, env) # NoAdminRes
       THEN adminRes' = requireAdmin(token, env) /\ UNCHANGED businesses
     ELSE IF ~Truthy(body.slug) \/ ~Truthy(body.name)
       THEN adminRes' = AdminError(400, "slug + name requis", NULL) /\ UNCHANGED businesses
     ELSE IF ~queryOk
       THEN /\ adminRes' = AdminError(500, "Erreur serveur", "Error: connect ECONNREFUSED")
            /\ UNCHANGED businesses
     ELSE /\ adminRes' = AdminOk([ok |-> TRUE])
          /\ businesses' = [businesses EXCEPT ![body.slug] = upsertRow(body)]
  /\ UNCHANGED << SESSIONS, heap, req, env, now, hp, retry, seenEmpty, recap, boot >>

\* GET /business/:slug (305-333)
GetBusiness(slug, queryOk) ==
  /\ adminReq' = [endpoint |-> "business", token |-> NULL, slug |-> slug, body |-> Nil]
  /\ adminRes' =
       IF ~queryOk THEN AdminError(500, "Erreur serveur", "Error: connect ECONNREFUSED")
       ELSE IF businesses[slug] = Nil THEN AdminError(404, "Business not found", NULL)
       ELSE AdminOk(publicBusiness(slug, businesses[slug]))
  /\ UNCHANGED << SESSIONS, heap, req, businesses, env, now, hp, retry, seenEmpty,
                  recap, boot >>

(***************************************************************************)
(* START-UP (src/server.js, top level): the statements of the module are   *)
(* evaluated in order, synchronously; a statement that raises ends the     *)
(* process (uncaught exception), callbacks and requests run only once the  *)
(* module has been evaluated to its end.                                   *)
(***************************************************************************)
\* the top-level statements in source order. kind: "plain" touches only what
\* the module has defined, "route" registers a handler, "global" reads a name
\* the module does not define, "spawn" starts initDb, "listen" is app.listen
TopLevel ==
  << [line |-> 17,  kind |-> "plain",  arg |-> "require express, cors, pg, openai"],
     [line |-> 24,  kind |-> "plain",  arg |-> "app = express(); cors; json"],
     [line |-> 31,  kind |-> "plain",  arg |-> "warn when DATABASE_URL is missing"],
     [line |-> 34,  kind |-> "plain",  arg |-> "pool = new Pool"],
     [line |-> 58,  kind |-> "spawn",  arg |-> "initDb()"],
     [line |-> 80,  kind |-> "plain",  arg |-> "SESSIONS = {}"],
     [line |-> 85,  kind |-> "plain",  arg |-> "client = new OpenAI"],
     [line |-> 240, kind |-> "route",  arg |-> "POST /business/upsert"],
     [line |-> 305, kind |-> "route",  arg |-> "GET /business/:slug"],
     [line |-> 338, kind |-> "route",  arg |-> "POST /chat"],
     [line |-> 484, kind |-> "route",  arg |-> "GET /lr-business.js"],
     [line |-> 585, kind |-> "global", arg |-> "document"],
     [line |-> 586, kind |-> "plain",  arg |-> "if (st) st.textContent = ..."],
     [line |-> 588, kind |-> "route",  arg |-> "GET /lr-auth.js"],
     [line |-> 660, kind |-> "route",  arg |-> "GET /lr-dashboard.js"],
     [line |-> 718, kind |-> "plain",  arg |-> "PORT = process.env.PORT || 8787"],
     [line |-> 719, kind |-> "listen", arg |-> "app.listen(PORT)"] >>

\* the routes whose handler sends a script, with the name the template
\* literal of the script reads from the enclosing scope (NULL: none)
StaticRoutes ==
  "GET /lr-business.js" :> NULL @@ "GET /lr-auth.js" :> "APP_BASE_URL"
  @@ "GET /lr-dashboard.js" :> "APP_BASE_URL"

AllRoutes == { TopLevel[k].arg : k \in { j \in 1..Len(TopLevel) : TopLevel[j].kind = "route" } }

\* the names a host's global object defines beyond those of the module and of
\* Node's standard library; Node itself defines neither
NodeGlobals == {}

HostGlobals == SUBSET { "document", "APP_BASE_URL" }

DefaultPort == "8787"

NoServed == [route |-> NULL, status |-> 0, raised |-> NULL]

\* before the first statement
Loading(globals, DATABASE_URL, PORT) ==
  [pc |-> 1, status |-> "loading", error |-> NULL, routes |-> {}, dbInit |-> "none",
   port |-> NULL, globals |-> globals, DATABASE_URL |-> DATABASE_URL, PORT |-> PORT,
   warned |-> FALSE, served |-> NoServed]

\* a process that has evaluated the module to its end and serves
Serving ==
  [Loading({ "document", "APP_BASE_URL" }, "postgres://db", NULL) EXCEPT
     !.pc = Len(TopLevel) + 1, !.status = "listening", !.routes = AllRoutes,
     !.dbInit = "ready", !.port = DefaultPort]

ReferenceError(name) == "ReferenceError: " \o name \o " is not defined"

\* one top-level statement is evaluated
EvalTopLevel ==
  /\ boot.status = "loading"
  /\ boot.pc <= Len(TopLevel)
  /\ LET stmt == TopLevel[boot.pc]
         next == [boot EXCEPT !.pc = boot.pc + 1]
     IN  boot' =
           IF stmt.kind = "global" /\ stmt.arg \notin boot.globals
             THEN [boot EXCEPT !.status = "crashed", !.error = ReferenceError(stmt.arg)]
           ELSE IF stmt.kind = "route"
             THEN [next EXCEPT !.routes = boot.routes \cup { stmt.arg }]
           ELSE IF stmt.kind = "spawn" THEN [next EXCEPT !.dbInit = "pending"]
           ELSE IF stmt.kind = "listen"
             THEN [next EXCEPT !.status = "listening",
                               !.port = IF Truthy(boot.PORT) THEN boot.PORT ELSE DefaultPort]
           ELSE IF stmt.line = 31
             THEN [next EXCEPT !.warned = ~Truthy(boot.DATABASE_URL)]
           ELSE next
  /\ UNCHANGED << SESSIONS, heap, req, businesses, env, now, hp, retry, seenEmpty,
                  adminReq, adminRes, recap >>

\* the promise of initDb() settles (58-61): both callbacks only log
InitDbSettles(queryOk) ==
  /\ boot.status = "listening"
  /\ boot.dbInit = "pending"
  /\ boot' = [boot EXCEPT !.dbInit = IF queryOk THEN "ready" ELSE "error"]
  /\ UNCHANGED << SESSIONS, heap, req, businesses, env, now, hp, retry, seenEmpty,
                  adminReq, adminRes, recap >>

\* a script route is requested: the handler evaluates its template literal and
\* sends it; when the literal reads an undefined name the handler raises and
\* Express's error handler answers 500
ServeScript(route) ==
  /\ boot.status = "listening"
  /\ route \in boot.routes \cap DOMAIN StaticRoutes
  /\ boot' = [boot EXCEPT !.served =
       IF StaticRoutes[route] # NULL /\ StaticRoutes[route] \notin boot.globals
         THEN [route |-> route, status |-> 500, raised |-> ReferenceError(StaticRoutes[route])]
         ELSE [route |-> route, status |-> 200, raised |-> NULL]]
  /\ UNCHANGED << SESSIONS, heap, req, businesses, env, now, hp, retry, seenEmpty,
                  adminReq, adminRes, recap >>

(***************************************************************************)
(* Observers of the sequential runs.  They read the step taken by request  *)
(* slot 1 and write nothing the handlers read.                             *)
(***************************************************************************)
\* the record a request holds once lines 390-414 have run
merged(q, h, clock) ==
  fillSlots(enterBooking(h[q.state], q.intentRes), q.message,
            services(q.kb, q.dbBusiness), clock)

HappyPath == << "je veux réserver", "Coupe homme", "le 20 mars", "14h", "oui" >>

NoRetry ==
  [phase |-> "none", sid |-> NULL, business_slug |-> NULL, kb |-> Nil,
   booking |-> Nil]

MissingKeyDetails == "Error: Missing RESEND_API_KEY on server"

Booking(state) == [service |-> state.service, date |-> state.date, time |-> state.time]

ObserveHappyPath ==
  LET q  == req[1]
      q2 == req'[1]
      onPath == q2.session_id = "s1" /\ q2.business_slug = "roma" /\ q2.kb = Nil
  IN  hp' =
        IF q2 = q THEN hp
        ELSE IF q.pc \in {"idle", "done"}
          THEN IF q2.pc # "db" \/ ~onPath THEN 0
               ELSE IF /\ q2.message = HappyPath[1]
                       /\ SESSIONS["s1"] = 0
                       /\ Truthy(env.RESEND_API_KEY)
                 THEN 1
               ELSE IF hp \in 1..4 /\ q2.message = HappyPath[hp + 1] THEN hp + 1
               ELSE 0
        ELSE IF q.pc = "db" THEN (IF q2.pc = "intent" THEN hp ELSE 0)
        ELSE IF q.pc = "intent"
          THEN (IF hp = 1 /\ q2.intentRes.intent # "booking" THEN 0 ELSE hp)
        ELSE (IF q2.res.status = 200 THEN hp ELSE 0)

ObserveRetry ==
  LET q  == req[1]
      q2 == req'[1]
      failedWith(booking) ==
        [phase |-> "failed", sid |-> q.sid, business_slug |-> q.business_slug,
         kb |-> q.kb, booking |-> booking]
  IN  retry' =
        IF q2 = q THEN retry
        ELSE IF q.pc \in {"idle", "done"}
          THEN IF /\ retry.phase = "failed"
                  /\ q2.pc = "db"
                  /\ q2.sid = retry.sid
                  /\ q2.business_slug = retry.business_slug
                  /\ q2.kb = retry.kb
                  /\ confirmationOf[q2.message]
                 THEN [retry EXCEPT !.phase = "retrying"]
                 ELSE NoRetry
        ELSE IF q.pc = "db" THEN (IF q2.pc = "intent" THEN retry ELSE NoRetry)
        ELSE IF q.pc = "intent"
          THEN IF q2.pc = "done" /\ q2.res.details = MissingKeyDetails
                 THEN failedWith(Booking(heap'[q.state]))
                 ELSE retry
        ELSE (IF q2.res.status = 200 THEN retry ELSE failedWith(q.sent.booking))

(***************************************************************************)
(* Specifications                                                          *)
(***************************************************************************)
Init ==
  /\ SESSIONS = [s \in Sids |-> 0]
  /\ heap = [o \in ObjIds |-> BlankState]
  /\ req = [r \in Reqs |-> IdleReq]
  /\ businesses = InitialBusinesses
  /\ env \in { [RESEND_API_KEY |-> "re_live_key", ADMIN_TOKEN |-> AdminSecret],
               [RESEND_API_KEY |-> NULL, ADMIN_TOKEN |-> AdminSecret] }
  /\ now = StartClock
  /\ hp = 0
  /\ retry = NoRetry
  /\ seenEmpty = [r \in Reqs |-> {}]
  /\ adminReq = NoAdminReq
  /\ adminRes = NoAdminRes
  /\ recap = [s \in Sids |-> Nil]
  /\ boot = Serving

\* the slots of its record a request found empty when it looked the session up;
\* forgotten once the request has run its merge or has been answered
ObserveSeenEmpty ==
  seenEmpty' =
    [r \in Reqs |->
       IF req'[r].pc \notin {"db", "intent"} THEN {}
       ELSE IF req[r].pc \in {"idle", "done"}
         THEN { slot \in {"service", "date", "time"} :
                  ~Truthy(heap'[req'[r].state][slot]) }
       ELSE seenEmpty[r]]

\* the recap reply of lines 449-452 is sent to session s in the step
RecapSent(s) ==
  /\ SESSIONS'[s] # 0
  /\ \E r \in Reqs :
       /\ req[r].pc = "intent" /\ req'[r].pc = "done"
       /\ req[r].sid = s
       /\ req'[r].res = ReplyRes(s, RecapText(heap'[SESSIONS'[s]]))

\* the booking last recapped to a session, forgotten when its key is deleted
ObserveRecap ==
  recap' = [s \in Sids |->
              IF SESSIONS'[s] = 0 THEN Nil
              ELSE IF RecapSent(s) THEN Booking(heap'[SESSIONS'[s]])
              ELSE recap[s]]

\* a step of POST /chat: the observers follow it, the admin endpoints are not
\* involved
Observe ==
  /\ ObserveHappyPath /\ ObserveRetry /\ ObserveSeenEmpty /\ ObserveRecap
  /\ UNCHANGED << adminReq, adminRes, boot >>

Unobserved ==
  UNCHANGED << hp, retry, adminReq, adminRes, recap, boot >> /\ ObserveSeenEmpty

\* one request at a time: the customer waits for the reply (spec section 5)
NextSeq ==
  \/ \E session_id \in {"s1"}, business_slug \in Slugs \cup {NULL},
        message \in Messages, kb \in {Nil, KbSalon, KbPlain} :
       ChatReceive(1, session_id, business_slug, message, kb) /\ Observe
  \/ \E queryOk \in BOOLEAN : DbReturns(1, queryOk) /\ Observe
  \/ \E outcome \in LlmOutcomes : LlmReturns(1, outcome) /\ Observe
  \/ \E outcome \in MailOutcomes : EmailReturns(1, outcome) /\ Observe
  \/ Tick /\ Observe

SeqSpec == Init /\ [][NextSeq]_vars

\* the store answers every query; nothing in the code makes the model call
\* (line 100) or the fetch of sendBookingEmail (line 136) settle: neither
\* carries a timeout or an abort signal
StoreSettles == \E queryOk \in BOOLEAN : DbReturns(1, queryOk) /\ Observe

LiveSpec == Init /\ [][NextSeq]_vars /\ WF_vars(StoreSettles)

\* the three endpoints together: the admin endpoints with every header and
\* body, POST /chat for one customer who books in two messages
ApiInit ==
  /\ SESSIONS = [s \in Sids |-> 0]
  /\ heap = [o \in ObjIds |-> BlankState]
  /\ req = [r \in Reqs |-> IdleReq]
  /\ businesses = InitialBusinesses
  /\ env \in { [RESEND_API_KEY |-> "re_live_key", ADMIN_TOKEN |-> AdminSecret],
               [RESEND_API_KEY |-> "re_live_key", ADMIN_TOKEN |-> NULL] }
  /\ now = StartClock
  /\ hp = 0
  /\ retry = NoRetry
  /\ seenEmpty = [r \in Reqs |-> {}]
  /\ adminReq = NoAdminReq
  /\ adminRes = NoAdminRes
  /\ recap = [s \in Sids |-> Nil]
  /\ boot = Serving

ApiNext ==
  \/ \E token \in Tokens, body \in UpsertBodies, queryOk \in BOOLEAN :
       Upsert(token, body, queryOk)
  \/ \E slug \in Slugs, queryOk \in BOOLEAN : GetBusiness(slug, queryOk)
  \/ \E business_slug \in {"roma", "zen"},
          message \in { "Coupe homme le 20 mars à 14h", "oui" } :
       ChatReceive(1, "s1", business_slug, message, Nil) /\ Observe
  \/ \E queryOk \in BOOLEAN : DbReturns(1, queryOk) /\ Observe
  \/ \E outcome \in { LlmText("{\"intent\":\"booking\"}"), LlmText("null") } :
       LlmReturns(1, outcome) /\ Observe
  \/ \E outcome \in { MailOk, MailRejected } : EmailReturns(1, outcome) /\ Observe

ApiSpec == ApiInit /\ [][ApiNext]_vars

\* one customer names dates, at every clock reading of DateClocks
DateInit ==
  /\ SESSIONS = [s \in Sids |-> 0]
  /\ heap = [o \in ObjIds |-> BlankState]
  /\ req = [r \in Reqs |-> IdleReq]
  /\ businesses = InitialBusinesses
  /\ env = [RESEND_API_KEY |-> "re_live_key", ADMIN_TOKEN |-> AdminSecret]
  /\ now \in DateClocks
  /\ hp = 0
  /\ retry = NoRetry
  /\ seenEmpty = [r \in Reqs |-> {}]
  /\ adminReq = NoAdminReq
  /\ adminRes = NoAdminRes
  /\ recap = [s \in Sids |-> Nil]
  /\ boot = Serving

DateNext ==
  \/ \E message \in DateMessages : ChatReceive(1, "s1", "roma", message, Nil) /\ Observe
  \/ \E queryOk \in BOOLEAN : DbReturns(1, queryOk) /\ Observe
  \/ LlmReturns(1, LlmText("{\"intent\":\"booking\"}")) /\ Observe

DateSpec == DateInit /\ [][DateNext]_vars

\* start-up on every host and environment, then the script routes and the
\* public business endpoint of the process that listens
BootInit ==
  /\ SESSIONS = [s \in Sids |-> 0]
  /\ heap = [o \in ObjIds |-> BlankState]
  /\ req = [r \in Reqs |-> IdleReq]
  /\ businesses = InitialBusinesses
  /\ env = [RESEND_API_KEY |-> "re_live_key", ADMIN_TOKEN |-> AdminSecret]
  /\ now = StartClock
  /\ hp = 0
  /\ retry = NoRetry
  /\ seenEmpty = [r \in Reqs |-> {}]
  /\ adminReq = NoAdminReq
  /\ adminRes = NoAdminRes
  /\ recap = [s \in Sids |-> Nil]
  /\ boot \in { Loading(globals, DATABASE_URL, PORT) :
                  globals \in HostGlobals, DATABASE_URL \in { "postgres://db", NULL },
                  PORT \in { "10000", NULL } }

BootNext ==
  \/ EvalTopLevel
  \/ \E queryOk \in BOOLEAN : InitDbSettles(queryOk)
  \/ \E route \in AllRoutes : ServeScript(route)
  \/ \E slug \in { "roma", "nope" }, queryOk \in BOOLEAN :
       /\ boot.status = "listening"
       /\ "GET /business/:slug" \in boot.routes
       /\ GetBusiness(slug, queryOk)

BootSpec == BootInit /\ [][BootNext]_vars

\* requests on one session overlapping at their awaits
Next ==
  \/ \E r \in Reqs, message \in RaceMessages :
       ChatReceive(r, "s1", "roma", message, Nil) /\ Unobserved
  \/ \E r \in Reqs, queryOk \in BOOLEAN : DbReturns(r, queryOk) /\ Unobserved
  \/ \E r \in Reqs, outcome \in LlmOutcomes : LlmReturns(r, outcome) /\ Unobserved
  \/ \E r \in Reqs, outcome \in MailOutcomes : EmailReturns(r, outcome) /\ Unobserved

Spec == Init /\ [][Next]_vars

(***************************************************************************)
(* Properties                                                              *)
(***************************************************************************)
Slots == {"service", "date", "time"}

\* the record of session s is the same object before and after the step
RecordKept(s) == SESSIONS[s] # 0 /\ SESSIONS'[s] = SESSIONS[s]

\* the key of session s is deleted by the step
RecordRemoved(s) == SESSIONS[s] # 0 /\ SESSIONS'[s] = 0

\* request r leaves its wait for the classifier in the step
ClassifierReturned(r) == req[r].pc = "intent" /\ req'[r].pc # "intent"

\* the 500 answers that report a fault of the store or of the dispatcher
StoreOrDispatcherFault(details) ==
  \/ details = "Error: connect ECONNREFUSED"
  \/ details = MissingKeyDetails
  \/ details = "Error: Resend error: " \o MailRejected.body
  \/ details = "TypeError: fetch failed"

\* C1. Fill-never-clear: as long as the record of a session exists, a slot
\* (service, date, time) that holds a non-empty value holds a non-empty value
\* after every step, whatever the message of the step extracts.
C1_FillNeverClear ==
  [][\A s \in Sids : RecordKept(s) =>
       \A slot \in Slots :
         Truthy(heap[SESSIONS[s]][slot]) => Truthy(heap'[SESSIONS[s]][slot])]_vars

\* C1 is exercised: the fourth message of the happy path has been answered with
\* the recap, so "le 20 mars" and "14h" (no service in them) and "14h" (no date
\* in it) were merged into a record that still holds the earlier values.
C1_Witness ==
  /\ hp = 4
  /\ req[1].pc = "done"
  /\ SESSIONS["s1"] # 0
  /\ req[1].res.text = RecapText(heap[SESSIONS["s1"]])
  /\ heap[SESSIONS["s1"]].service = "Coupe homme"
  /\ heap[SESSIONS["s1"]].date = "2026-03-20"

\* C2. in_booking is monotonic: as long as the record of a session exists,
\* in_booking, once true, is true after every step, whatever the classifier
\* returns.
C2_InBookingMonotonic ==
  [][\A s \in Sids : RecordKept(s) /\ heap[SESSIONS[s]].in_booking =>
       heap'[SESSIONS[s]].in_booking]_vars

\* C2 is exercised: a message the classifier called "other" has been answered
\* with a booking reply (not the greeting), and the record is still in booking.
C2_Witness ==
  \E r \in Reqs :
    /\ req[r].pc = "done"
    /\ req[r].intentRes = JsObject("other")
    /\ req[r].res.status = 200
    /\ req[r].res.text = AskDateText
    /\ SESSIONS[req[r].sid] # 0
    /\ heap[SESSIONS[req[r].sid]].in_booking

\* the step in which request r gets the dispatcher's success and answers
DispatchCompleted(r, s) ==
  /\ req[r].pc = "email"
  /\ req[r].sid = s
  /\ req'[r].pc = "done"
  /\ req'[r].res = ReplyRes(s, ThanksText)

\* the step in which request r answers a confirmation for a business without a
\* contact address, no dispatch made
DegradedCompleted(r, s) ==
  /\ ClassifierReturned(r)
  /\ req[r].sid = s
  /\ confirmationOf[req[r].message]
  /\ businessEmail(req[r].kb, req[r].dbBusiness) = NULL
  /\ req'[r].pc = "done"
  /\ req'[r].sent = Nil
  /\ req'[r].res = ReplyRes(s, DegradedText)

\* C3, as stated. A session record is removed only in the step that completes
\* a successful dispatch, and in no other step.
C3_RemovedOnlyAfterDispatch ==
  [][\A s \in Sids : RecordRemoved(s) => \E r \in Reqs : DispatchCompleted(r, s)]_vars

\* C3, amended. A session record is removed only in the step that completes a
\* successful dispatch or in the step that answers a confirmation for a
\* business without a contact address (no dispatch made); every successful
\* dispatch removes the record; a step that ends in a failure response removes
\* none.
C3_RemovedAfterDispatchOrDegraded ==
  [][/\ \A s \in Sids : RecordRemoved(s) =>
          \E r \in Reqs : DispatchCompleted(r, s) \/ DegradedCompleted(r, s)
     /\ \A r \in Reqs : DispatchCompleted(r, req[r].sid) => SESSIONS'[req[r].sid] = 0
     /\ \A r \in Reqs : req'[r] # req[r] /\ req'[r].res.status \in {400, 500} =>
          SESSIONS' = SESSIONS]_vars

\* C3 is exercised: the degraded apology has been sent and the record is gone.
C3_Witness ==
  /\ req[1].pc = "done"
  /\ req[1].res.text = DegradedText
  /\ req[1].sent = Nil
  /\ SESSIONS[req[1].sid] = 0

\* C4. A failed dispatch ends in a failure response and leaves the record with
\* its service, date, time and in_booking; the confirmation sent next on the
\* same session, if the dispatcher then works, is answered with the thank-you
\* text after a dispatch of the same booking.
C4_RetryDispatches ==
  /\ retry.phase = "failed" =>
       /\ req[1].res.status = 500
       /\ SESSIONS[retry.sid] # 0
       /\ heap[SESSIONS[retry.sid]].in_booking
       /\ Booking(heap[SESSIONS[retry.sid]]) = retry.booking
  /\ retry.phase = "retrying" /\ req[1].pc = "done" =>
       /\ req[1].res = ReplyRes(retry.sid, ThanksText)
       /\ req[1].sent # Nil
       /\ req[1].sent.booking = retry.booking

\* C4's case is reached: a retried confirmation has been dispatched with the
\* booking of the failed attempt.
C4_Witness ==
  /\ retry.phase = "retrying"
  /\ req[1].pc = "done"
  /\ req[1].res = ReplyRes(retry.sid, ThanksText)
  /\ req[1].sent.booking = retry.booking

\* C5. Whenever a request is waiting for the classifier on a confirmation, for
\* a business without a contact address, in a session whose three slots are
\* filled, its answer is the degraded apology, no dispatch is made and the
\* record is deleted.
C5_DegradedApology ==
  [][\A r \in Reqs :
       /\ ClassifierReturned(r)
       /\ confirmationOf[req[r].message]
       /\ businessEmail(req[r].kb, req[r].dbBusiness) = NULL
       /\ \A slot \in Slots : Truthy(heap[req[r].state][slot])
       => /\ req'[r].pc = "done"
          /\ req'[r].res = ReplyRes(req[r].sid, DegradedText)
          /\ req'[r].sent = Nil
          /\ SESSIONS'[req[r].sid] = 0]_vars

\* C5's case is reached: the apology has been sent for a record with three
\* filled slots, and the record is deleted.
C5_Witness ==
  /\ req[1].pc = "done"
  /\ req[1].res = ReplyRes("s1", DegradedText)
  /\ req[1].intentRes = JsObject("other")
  /\ SESSIONS["s1"] = 0

\* C6. Happy path: from an empty session, with a contact address and a
\* working dispatcher, the messages of HappyPath (the first one classified as
\* booking) are answered in order with ask-service, ask-date, ask-time, the
\* recap and the thank-you text; the dispatcher is called on the fifth message
\* only, and the record is deleted after it.
C6_HappyPathOrdering ==
  hp \in 1..5 /\ req[1].pc = "done" =>
    /\ req[1].res.status = 200
    /\ hp = 1 => req[1].res.text = AskServiceText(RomaRow.services)
    /\ hp = 2 => req[1].res.text = AskDateText
    /\ hp = 3 => req[1].res.text = AskTimeText
    /\ hp = 4 => req[1].res.text = RecapText(heap[SESSIONS["s1"]])
    /\ hp < 5 => req[1].sent = Nil /\ SESSIONS["s1"] # 0
    /\ hp = 5 => /\ req[1].res.text = ThanksText
                 /\ req[1].sent # Nil
                 /\ SESSIONS["s1"] = 0

\* C6's case is reached: the fifth message has been answered with the
\* thank-you text after a dispatch.
C6_Witness ==
  /\ hp = 5
  /\ req[1].pc = "done"
  /\ req[1].res.text = ThanksText
  /\ req[1].sent # Nil
  /\ SESSIONS["s1"] = 0

\* the question for the first empty slot of a record, in the order service,
\* date, time
FirstEmptyQuestion(state, svcs) ==
  IF ~Truthy(state.service) THEN AskServiceText(svcs)
  ELSE IF ~Truthy(state.date) THEN AskDateText
  ELSE AskTimeText

\* C7. Next-question priority: when the record after the merge is in booking
\* and has an empty slot, the reply asks for the first empty slot in the order
\* service, date, time; no recap is sent, no dispatch is made and the record
\* stays.
C7_NextQuestionPriority ==
  [][\A r \in Reqs :
       LET q      == [req[r] EXCEPT !.intentRes = req'[r].intentRes]
           state  == merged(q, heap, now)
       IN  /\ ClassifierReturned(r)
           /\ req'[r].intentRes # JsNull
           /\ state.in_booking
           /\ \E slot \in Slots : ~Truthy(state[slot])
           => /\ req'[r].pc = "done"
              /\ req'[r].res =
                   ReplyRes(q.sid, FirstEmptyQuestion(state, services(q.kb, q.dbBusiness)))
              /\ req'[r].sent = Nil
              /\ heap'[q.state] = state
              /\ SESSIONS' = SESSIONS]_vars

\* C7 is exercised: with service and date set and the time missing, the reply
\* asks for the time.
C7_Witness ==
  /\ req[1].pc = "done"
  /\ req[1].res.text = AskTimeText
  /\ SESSIONS["s1"] # 0
  /\ Truthy(heap[SESSIONS["s1"]].service)
  /\ Truthy(heap[SESSIONS["s1"]].date)
  /\ ~Truthy(heap[SESSIONS["s1"]].time)

\* C8. The classifier is called for a message only when the session is not
\* in booking: no request starts to wait for the classifier while its record
\* has in_booking true.
C8_ClassifierOnlyOutsideBooking ==
  [][\A r \in Reqs :
       req[r].pc = "db" /\ req'[r].pc = "intent" => ~heap[req[r].state].in_booking]_vars

\* C8's case is reached: a request waits for the classifier on a record that
\* is in booking.
C8_Witness ==
  \E r \in Reqs : req[r].pc = "intent" /\ heap[req[r].state].in_booking

\* C9. Whatever the model call does, analyzeIntent returns (it never raises)
\* an object whose intent is "booking" or "other".
C9_ClassifierSafeDefault ==
  \A r \in Reqs :
    req[r].llm # Nil =>
      req[r].intentRes =
        IF req[r].llm = LlmText("{\"intent\":\"booking\"}")
          THEN JsObject("booking") ELSE JsObject("other")

\* C9's case is reached: the model call has failed and analyzeIntent has
\* returned the default.
C9_Witness ==
  \E r \in Reqs : req[r].llm = LlmReject /\ req[r].intentRes = JsObject("other")

\* C10. A valid request gets a normal reply: a failure response reports a
\* fault of the store or of the dispatcher only, never one of the classifier or
\* of an extraction.
C10_AlwaysReplies ==
  \A r \in Reqs :
    req[r].pc = "done" /\ req[r].res.status # 400 =>
      \/ req[r].res.status = 200 /\ req[r].res.text # NULL /\ req[r].res.session_id = req[r].sid
      \/ req[r].res.status = 500 /\ StoreOrDispatcherFault(req[r].res.details)

\* C10's case is reached: the classifier's output could not be parsed and the
\* request was answered with a normal reply.
C10_Witness ==
  \E r \in Reqs :
    /\ req[r].pc = "done"
    /\ req[r].llm = LlmText("Bien sûr ! intent = booking")
    /\ req[r].res.status = 200

\* request r is received in the step
Received(r) == req[r].pc \in {"idle", "done"} /\ req'[r] # req[r]

\* C11. Validation: a request is accepted (the store is queried) only with a
\* business_slug and a message; every other request received is answered 400
\* at once, with the Session Store (its keys and every record) as it was and
\* no store query, classifier call or dispatch made.
C11_RejectedBeforeMutation ==
  [][\A r \in Reqs : Received(r) =>
       \/ /\ req'[r].pc = "db"
          /\ Truthy(req'[r].business_slug)
          /\ Truthy(req'[r].message)
       \/ /\ req'[r].pc = "done"
          /\ req'[r].res = ErrorRes(400, "business_slug et message requis.", NULL)
          /\ req'[r].dbBusiness = Nil
          /\ req'[r].llm = Nil
          /\ req'[r].sent = Nil
          /\ SESSIONS' = SESSIONS
          /\ heap' = heap]_vars

\* C11 is exercised: a request has been rejected while a session with a
\* filled slot exists.
C11_Witness ==
  /\ req[1].pc = "done"
  /\ req[1].res.status = 400
  /\ SESSIONS["s1"] # 0
  /\ Truthy(heap[SESSIONS["s1"]].service)

\* what the store can hold for a business_slug: no row, a row with a contact
\* address, a row without one
StoredRecords == { Nil, RomaRow, ZenRow }

\* C12. A caller-supplied kb wins outright: for a request that carries a kb,
\* a failing store query does not end the request, and the business name, the
\* service list and the address the dispatcher would be called with are the
\* same whatever the store holds for the business_slug, so that the reply, the
\* change of the record and the dispatch are the same.
C12_KbWinsOutright ==
  [][\A r \in Reqs : req[r].kb # Nil =>
       /\ req[r].pc = "db" /\ req'[r] # req[r] => req'[r].pc = "intent"
       /\ req[r].pc = "intent" =>
            \A d \in StoredRecords :
              /\ businessName(req[r].kb, d) = businessName(req[r].kb, req[r].dbBusiness)
              /\ services(req[r].kb, d) = services(req[r].kb, req[r].dbBusiness)
              /\ businessEmail(req[r].kb, d) = businessEmail(req[r].kb, req[r].dbBusiness)]_vars

\* C12's case is reached: a request with a kb that names no contact address
\* has called the dispatcher with the address of the stored row.
C12_Witness ==
  /\ req[1].pc = "email"
  /\ req[1].kb = KbPlain
  /\ req[1].sent.to = RomaRow.contact_email

\* request r runs its merge in the step, on a record that is in booking and
\* that the store or a suspended request still refers to after the step
Merges(r) ==
  /\ ClassifierReturned(r)
  /\ req'[r].intentRes # JsNull
  /\ enterBooking(heap[req[r].state], req'[r].intentRes).in_booking
  /\ req[r].state \in Live(SESSIONS', req')

\* the value request r carries for a slot
Carried(r, slot) ==
  extraction(req[r].message, services(req[r].kb, req[r].dbBusiness), now)[slot]

\* another request has filled the slot while request r was suspended: the
\* merge of r is the later one
MergesLater(r, slot) ==
  Merges(r) /\ slot \in seenEmpty[r] /\ Truthy(heap[req[r].state][slot])

\* C13, as stated. Last-write-wins: when requests on one session overlap and
\* carry a value for the same empty slot, the request whose merge runs later
\* leaves its value in the slot.
C13_LastWriteWins ==
  [][\A r \in Reqs : \A slot \in Slots :
       MergesLater(r, slot) /\ Truthy(Carried(r, slot)) =>
         heap'[req[r].state][slot] = Carried(r, slot)]_vars

\* C13, amended. First-write-wins: when requests on one session overlap and
\* carry a value for the same empty slot, the request whose merge runs first
\* (it finds the slot empty) writes its value, and the request whose merge runs
\* later finds the slot filled and leaves the value there.
C13_FirstWriteWins ==
  [][\A r \in Reqs : \A slot \in Slots :
       /\ Merges(r) /\ ~Truthy(heap[req[r].state][slot]) /\ Truthy(Carried(r, slot)) =>
            heap'[req[r].state][slot] = Carried(r, slot)
       /\ MergesLater(r, slot) =>
            heap'[req[r].state][slot] = heap[req[r].state][slot]]_vars

\* C13 is exercised: two requests overlapped on an empty record, "Barbe" was
\* merged first and the message naming "Coupe homme", a date and a time later;
\* the record holds the service of the first and the date and time of the
\* second.
C13_Witness ==
  \E r \in Reqs :
    /\ req[r].pc = "done"
    /\ req[r].res.status = 200
    /\ SESSIONS["s1"] # 0
    /\ heap[SESSIONS["s1"]] = [service |-> "Barbe", date |-> "2026-03-20",
                               time |-> "14:00", in_booking |-> TRUE]
    /\ req[r].res.text = RecapText(heap[SESSIONS["s1"]])

\* C14. Bounded wait: every accepted request is answered in the end, also
\* when the model call or the dispatcher's fetch never settles.
C14_BoundedWait ==
  \A r \in Reqs : (req[r].pc \in {"db", "intent", "email"}) ~> (req[r].pc = "done")

\* C14's case is reached: a request is suspended at the fetch of
\* sendBookingEmail.
C14_Witness ==
  /\ req[1].pc = "email"
  /\ req[1].sent.to = RomaRow.contact_email
  /\ req[1].res = NoRes

\* a failure response: a 4xx or 5xx status
Failure(res) == res.status >= 400

\* C15: no failure response of POST /chat, POST /business/upsert or
\* GET /business/:slug carries the text of the caught error: the body is the
\* fixed message alone, its details field absent.
C15_NoRawErrorText ==
  /\ \A r \in Reqs : Failure(req[r].res) => req[r].res.details = NULL
  /\ Failure(adminRes) => adminRes.details = NULL

\* a storage fault answered by an admin endpoint and a dispatch fault answered
\* by POST /chat, both with the fixed message
C15_Witness ==
  /\ adminRes.status = 500 /\ adminRes.error = "Erreur serveur"
  /\ req[1].pc = "done" /\ req[1].res.status = 500
  /\ req[1].res.error = "Erreur serveur" /\ req[1].sent # Nil

\* the header of the last admin request equals the configured token
Authorized == Truthy(env.ADMIN_TOKEN) /\ adminReq.token = env.ADMIN_TOKEN

\* C16: the businesses table is written only by a POST /business/upsert
\* whose x-admin-token header equals a configured ADMIN_TOKEN; an upsert
\* with the token unset or the header missing or different is rejected and
\* leaves every row as it was.
C16_UpsertGated ==
  [][ /\ businesses' # businesses =>
           adminReq'.endpoint = "upsert" /\ Authorized'
      /\ (adminReq' # adminReq /\ adminReq'.endpoint = "upsert" /\ ~Authorized') =>
           adminRes'.status \in {401, 500} /\ businesses' = businesses ]_vars

\* a row was written by an authorized upsert, and a later upsert with a wrong
\* header has been rejected
C16_Witness ==
  /\ businesses["nope"] # Nil
  /\ adminReq.endpoint = "upsert" /\ adminReq.token = "guess"
  /\ adminRes.status = 401

\* request r's classifier call settles in the step on a session that is not in
\* booking, with anything but the intent booking
IdleBranch(r) ==
  /\ ClassifierReturned(r)
  /\ ~heap[req[r].state].in_booking
  /\ req'[r].llm # LlmText("{\"intent\":\"booking\"}")

\* C17: the idle branch is a no-op on state: on a session that is not in
\* booking, a message the classifier does not rate as booking is answered with
\* the generic greeting, and the record keeps its empty slots and its false
\* in_booking, whatever service, date or time the message contains.
C17_IdleNoOp ==
  [][\A r \in Reqs : IdleBranch(r) =>
       /\ req'[r].res =
            ReplyRes(req[r].sid, GreetingText(businessName(req[r].kb, req[r].dbBusiness)))
       /\ SESSIONS'[req[r].sid] = req[r].state
       /\ heap'[req[r].state] = BlankState]_vars

\* the idle branch has answered: the classifier said other, the greeting was
\* sent and the record of the session is blank
C17_Witness ==
  /\ req[1].pc = "done"
  /\ req[1].intentRes = JsObject("other")
  /\ req[1].res.text = GreetingText("Atelier Roma")
  /\ SESSIONS["s1"] # 0 /\ heap[SESSIONS["s1"]] = BlankState

\* request r's classifier call settles in the step, its message is no
\* confirmation and the record it holds has all three slots filled
RecapCase(r) ==
  /\ ClassifierReturned(r)
  /\ \A slot \in Slots : Truthy(heap[req[r].state][slot])
  /\ ~confirmationOf[req[r].message]

\* C18: a filled slot is frozen: as long as the record of a session exists, a
\* slot that holds a non-empty value holds the same value after every step,
\* whatever the message of the step carries; and a message that is no
\* confirmation, received with all three slots filled, is answered with the
\* recap and leaves service, date, time and in_booking as they were.
C18_FilledSlotFrozen ==
  [][/\ \A s \in Sids : RecordKept(s) =>
          \A slot \in Slots :
            Truthy(heap[SESSIONS[s]][slot]) =>
              heap'[SESSIONS[s]][slot] = heap[SESSIONS[s]][slot]
     /\ \A r \in Reqs : RecapCase(r) =>
          /\ req'[r].res = ReplyRes(req[r].sid, RecapText(heap[req[r].state]))
          /\ SESSIONS' = SESSIONS
          /\ req[r].state \in Live(SESSIONS', req') =>
               heap'[req[r].state] = heap[req[r].state]]_vars

\* two messages were answered with the recap of one record: the one merged
\* later (it names "Barbe", or the service, date and time again) found all
\* three slots filled and left "Coupe homme" there
C18_Witness ==
  /\ SESSIONS["s1"] # 0
  /\ heap[SESSIONS["s1"]] = [service |-> "Coupe homme", date |-> "2026-03-20",
                             time |-> "14:00", in_booking |-> TRUE]
  /\ \A r \in Reqs :
       req[r].pc = "done" /\ req[r].res.text = RecapText(heap[SESSIONS["s1"]])

\* the services list of the business whose contact address a request uses: the
\* caller's kb when the address is the kb's, the stored record otherwise
notifiedCatalog(kb, dbBusiness) ==
  IF kb # Nil /\ Truthy(kb.business.contact_email) THEN kb.services
  ELSE IF dbBusiness # Nil THEN dbBusiness.services
  ELSE << >>

InCatalog(service, svcs) == \E k \in 1..Len(svcs) : svcs[k].name = service

\* C19: the service of every dispatched booking is a name of the catalog of
\* the business that is notified, whatever business_slug and kb the requests
\* of the session named.
C19_ServiceInCatalog ==
  \A r \in Reqs :
    req[r].pc = "email" =>
      InCatalog(req[r].sent.booking.service,
                notifiedCatalog(req[r].kb, req[r].dbBusiness))

\* a booking is on its way to the address of the caller's kb on a session
\* whose service was filled under a stored business
C19_Witness ==
  /\ req[1].pc = "email"
  /\ req[1].kb = KbSalon
  /\ req[1].sent.to = KbSalon.business.contact_email
  /\ req[1].sent.booking.service = "Coupe homme"

\* the year the date of a <day> <month> message gets: the current year when
\* the day is today or later, the next year when it is before today
rolledYear(month, day, clock) ==
  IF month < clock.month \/ (month = clock.month /\ day < clock.day)
    THEN clock.year + 1 ELSE clock.year

\* request r's merge fills the empty date slot in the step
FillsDate(r) ==
  /\ ClassifierReturned(r)
  /\ req'[r].res.status = 200
  /\ ~Truthy(heap[req[r].state].date)
  /\ enterBooking(heap[req[r].state], req'[r].intentRes).in_booking

\* C20: date roll-forward: the date filled from a <day> <month> message has
\* the current year when that day of the current year is today or later, and
\* the next year exactly when it is before today, at every time of day.
C20_DateRollForward ==
  [][\A r \in Reqs : \A day \in DateDays, monthName \in DateMonths :
       FillsDate(r) /\ req[r].message = DayMonthText(day, monthName) =>
         heap'[req[r].state].date =
           NumToString(rolledYear(months[monthName], day, now)) \o "-"
             \o padStart2(NumToString(months[monthName])) \o "-"
             \o padStart2(NumToString(day))]_vars

\* a customer named today's date at noon and the record holds it with the
\* next year
C20_Witness ==
  /\ now = [year |-> 2026, month |-> 3, day |-> 19, ms |-> 43200000]
  /\ req[1].pc = "done"
  /\ SESSIONS["s1"] # 0
  /\ heap[SESSIONS["s1"]].date = "2027-03-19"

\* request r calls sendBookingEmail in the step
Dispatches(r) == req[r].pc = "intent" /\ req'[r].pc = "email"

\* C21: the dispatcher is invoked for a session only after a recap reply with
\* the same service, date and time has been sent to that session, and the key
\* of a session is deleted only after such a recap: no message completes a
\* session that has not been through the confirmation question.
C21_RecapBeforeDispatch ==
  [][/\ \A r \in Reqs : Dispatches(r) =>
          recap[req[r].sid] = req'[r].sent.booking
     /\ \A s \in Sids : RecordRemoved(s) => recap[s] # Nil]_vars

\* the happy path: the confirmation is on its way to the dispatcher and the
\* booking it carries is the one recapped to the session
C21_Witness ==
  /\ hp = 5
  /\ req[1].pc = "email"
  /\ recap["s1"] = req[1].sent.booking
  /\ recap["s1"].service = "Coupe homme"

\* the record request r works on is the one the store holds for its session
HoldsStoredRecord(r) == SESSIONS[req[r].sid] = req[r].state

\* the fetch of request r settles with a 2xx answer in the step
DispatchSucceeds(r) ==
  /\ req[r].pc = "email" /\ req'[r].pc = "done"
  /\ req'[r].res = ReplyRes(req[r].sid, ThanksText)

\* C22: at most one notification per booking: a dispatch succeeds only on a
\* record the store still holds (the success deletes it, so a record sees at
\* most one), and no request calls the dispatcher on a record that has been
\* deleted, however the requests of the session overlap at their awaits.
C22_AtMostOneDispatch ==
  [][\A r \in Reqs :
       /\ DispatchSucceeds(r) => HoldsStoredRecord(r)
       /\ Dispatches(r) => HoldsStoredRecord(r)]_vars

\* two confirmations on one record have both reached the fetch of
\* sendBookingEmail
C22_Witness ==
  /\ req[1].pc = "email" /\ req[2].pc = "email"
  /\ req[1].state = req[2].state
  /\ req[1].sent = req[2].sent

\* C23: start-up completes: on Node, the evaluation of the module raises at
\* no top-level statement (so it reaches app.listen and the routes are served),
\* and no route handler raises when it is requested.
C23_StartupCompletes ==
  boot.globals = NodeGlobals =>
    /\ boot.status # "crashed"
    /\ boot.served.raised = NULL

\* Node has evaluated the module up to line 585: the API routes are
\* registered, initDb is under way, and the process has ended there without
\* listening
C23_Witness ==
  /\ boot.globals = NodeGlobals
  /\ boot.status = "crashed"
  /\ TopLevel[boot.pc].line = 585
  /\ "POST /chat" \in boot.routes
  /\ boot.dbInit = "pending"
  /\ boot.port = NULL

====
